---- MODULE Spec2Model ----
(***************************************************************************)
(* rust_invaders: the frame loop of the game (client/src/main.rs,          *)
(* client/src/player.rs, src/enemy.rs) as a state machine.                 *)
(*                                                                         *)
(* Units.  Lengths are counted in cells of 200 px and time in ticks of     *)
(* 1/3 s, so that BASE_SPEED (600 px/s) is one cell per tick for a unit    *)
(* velocity, the despawn margin (200 px) is one cell and the on_timer      *)
(* interval (1 s) is three ticks.  Sprites are smaller than a cell: their  *)
(* half extents round to 0 cells.  The window reported to setup is         *)
(* 400 x 400 px, two cells each way.  The horizontal axis is held still:   *)
(* KeyA and KeyD are not pressed and the enemies' horizontal draw is 0.    *)
(*                                                                         *)
(* Scheduling.  Every Update system is added without an ordering, so the   *)
(* executor may run them in any order, and their Commands (spawn,          *)
(* despawn) are applied when the schedule ends.  A frame is BeginFrame     *)
(* (time, timers, StateTransition with OnEnter), one step per system that  *)
(* runs, and EndFrame (the deferred commands).  The orders followed are a  *)
(* part of those the executor may pick: the systems of Chain in that       *)
(* order; movement, enemy_spawn and update_scoreboard at any place among   *)
(* them; enemy_move last or, when it has an enemy to despawn, ahead of the *)
(* system that counts the same enemies down.                               *)
(*                                                                         *)
(* u32.  A counter that wrapped below 0 is written as a negative number:   *)
(* -1 stands for 2^32 - 1.  A build with overflow checks panics instead.   *)
(***************************************************************************)
EXTENDS Integers, Sequences, FiniteSets, TLC

\* ---------------------------------------------------------------- bounds
\* Entities alive after a frame's commands are applied.
MaxEnts == 5
\* The score a session is followed to.
MaxScore == 6
\* Largest enemy velocity component followed (the random walk is unbounded).
MaxVel == 1
\* Longest frame, in ticks.
MaxDelta == 1
\* Playing sessions followed.
MaxSessions == 1
\* The points a session is followed for from the score before the upgrade.
MaxLate == 2
\* The time a trigger is followed for, in ticks.
MaxClock == 30
\* The farthest two boxes under the collision test are apart, on an axis.
MaxOffset == 6

\* ------------------------------------------------------------- constants
PLAYER_MAX_LASERS == 10
EXPLOSION_LEN == 16
LASER_UPGRADE_SCORE == 50
BASE_SPEED == 1
margin == 1
INITIAL_MAX_ENEMIES == 3
RESET_MAX_ENEMIES == 3
RAISED_MAX_ENEMIES == 10
MAX_ENEMIES_SCORE == 5
TIMER_TICKS == 3

PLAYER_SIZE == <<1, 0>>
PLAYER_LASER_SIZE == <<0, 0>>
ENEMY_SIZE == <<1, 0>>
ENEMY_LASER_SIZE == <<0, 0>>

\* The window size setup captures.
win_size == [w |-> 2, h |-> 2]

GameState == {"Startup", "MainMenu", "Playing", "GameOver"}

VARIABLES
    state,                  \* State<GameState>
    next_state,             \* NextState<GameState>: "None" or the state set
    score,                  \* Score
    high_score,             \* HighScore
    enemy_count,            \* EnemyCount
    max_enemies,            \* MaxEnemies
    laser_velocity_upgrade, \* LaserUpgrage
    resources,              \* WinSize and GameTextures are inserted
    ents,                   \* the live entities; an entity's id is its index
    despawns,               \* deferred despawn commands: id -> how many
    spawns,                 \* deferred spawn commands
    pc,                     \* "startup", "first" (between frames), "update";
                            \* "timer" where only the triggers are followed,
                            \* "box" where only the collision test is
    chain,                  \* the last fixed-order system that ran
    ran,                    \* the free-order systems that ran this frame
    delta,                  \* Time::delta of this frame, in ticks
    spawn_timer,            \* on_timer of enemy_spawn
    fire_timer,             \* on_timer of enemy_fire
    fire_held,              \* ArrowUp was pressed in the previous frame
    panic,                  \* "none", or why the process died
    wrapped,                \* enemy_count wrapped below 0 (no overflow checks)
    score0,                 \* the score when this frame began
    session,                \* how many times Playing was entered
    firings,                \* a trigger's history: time run, times fired
    probe,                  \* two boxes, and what the collision test said
    high_score_file         \* high_score.txt: its text, and whether it can be
                            \* read and written

vars == <<state, next_state, score, high_score, enemy_count, max_enemies,
          laser_velocity_upgrade, resources, ents, despawns, spawns, pc,
          chain, ran, delta, spawn_timer, fire_timer, fire_held, panic,
          wrapped, score0, session, firings, probe, high_score_file>>

\* -------------------------------------------------------------- entities
Entity(kind, x, y, vx, vy, movable, auto_despawn, index) ==
    [kind |-> kind, x |-> x, y |-> y, vx |-> vx, vy |-> vy,
     movable |-> movable, auto_despawn |-> auto_despawn, index |-> index]

Ids == 1..Len(ents)
IdsOf(kind) == {i \in Ids : ents[i].kind = kind}
NumOf(kind) == Cardinality(IdsOf(kind))

KindIdx(k) ==
    CASE k = "Player" -> 0
      [] k = "Enemy" -> 1
      [] k = "PlayerLaser" -> 2
      [] k = "EnemyLaser" -> 3
      [] k = "Explosion" -> 4

\* Entity ids are opaque: the entities are kept in one canonical order.
Key(e) ==
    ((((KindIdx(e.kind) * 32 + (e.x + 16)) * 32 + (e.y + 16)) * 16
        + (e.vx + 8)) * 16 + (e.vy + 8)) * 32 + e.index

RECURSIVE Insert(_, _)
Insert(s, e) ==
    IF s = <<>> THEN <<e>>
    ELSE IF Key(e) <= Key(Head(s)) THEN <<e>> \o s
    ELSE <<Head(s)>> \o Insert(Tail(s), e)

RECURSIVE SortEnts(_)
SortEnts(s) == IF s = <<>> THEN <<>> ELSE Insert(SortEnts(Tail(s)), Head(s))

RECURSIVE SeqOfSet(_)
SeqOfSet(S) ==
    IF S = {} THEN <<>>
    ELSE LET m == CHOOSE a \in S : \A b \in S : a <= b
         IN <<m>> \o SeqOfSet(S \ {m})

Perms(S) ==
    {p \in [1..Cardinality(S) -> S] : \A a \in S : \E i \in DOMAIN p : p[i] = a}

\* ------------------------------------------------------------------- u32
\* a < b on u32 values, a negative number standing for 2^32 + itself.
U32Lt(a, b) ==
    IF a < 0 THEN b < 0 /\ a < b
    ELSE b < 0 \/ a < b

\* n decrements of c pass below 0.
Underflows(c, n) == c >= 0 /\ n > c

\* ---------------------------------------------------------------- timers
Timer == [elapsed : 0..(TIMER_TICKS - 1), finished : BOOLEAN]

\* Timer::tick of a repeating timer, and just_finished.
Tick(t, d) ==
    [elapsed |-> (t.elapsed + d) % TIMER_TICKS,
     finished |-> t.elapsed + d >= TIMER_TICKS]

\* A fault of the timer: a firing discards the time beyond the interval.
TickFromZero(t, d) ==
    [elapsed |-> IF t.elapsed + d >= TIMER_TICKS THEN 0 ELSE t.elapsed + d,
     finished |-> t.elapsed + d >= TIMER_TICKS]

\* on_timer's closure: the timer is ticked by the frame's delta and the
\* system runs if it just finished.
on_timer(t, d) == Tick(t, d)

\* -------------------------------------------------------------- geometry
\* SpriteSize * scale / 2, with SPRITE_SCALE = 1/2.
HalfExtent(size) == <<size[1] \div 4, size[2] \div 4>>

SizeOf(kind) ==
    CASE kind = "Player" -> PLAYER_SIZE
      [] kind = "Enemy" -> ENEMY_SIZE
      [] kind = "PlayerLaser" -> PLAYER_LASER_SIZE
      [] kind = "EnemyLaser" -> ENEMY_LASER_SIZE
      [] kind = "Explosion" -> <<0, 0>>

\* Aabb2d::new(center, half_size)
Aabb2d(cx, cy, half) ==
    [min |-> <<cx - half[1], cy - half[2]>>,
     max |-> <<cx + half[1], cy + half[2]>>]

\* A fault of the test: boxes whose edges touch do not intersect.
StrictIntersects(a, b) ==
    /\ a.min[1] < b.max[1] /\ a.max[1] > b.min[1]
    /\ a.min[2] < b.max[2] /\ a.max[2] > b.min[2]

\* Aabb2d::intersects
Intersects(a, b) ==
    /\ a.min[1] <= b.max[1] /\ a.max[1] >= b.min[1]
    /\ a.min[2] <= b.max[2] /\ a.max[2] >= b.min[2]

Collision(a, b) ==
    Intersects(Aabb2d(a.x, a.y, HalfExtent(SizeOf(a.kind))),
               Aabb2d(b.x, b.y, HalfExtent(SizeOf(b.kind))))

\* The despawn test of movement and enemy_move; 2 * (h / 2 + margin).
OutOfBounds(x, y) ==
    \/ 2 * y > win_size.h + 2 * margin
    \/ 2 * y < -win_size.h - 2 * margin
    \/ 2 * x > win_size.w + 2 * margin
    \/ 2 * x < -win_size.w - 2 * margin

\* ----------------------------------------------------------------- frame
\* The systems that run in one order.
Chain ==
    <<"explosion_animation", "player_input", "start_game", "game_over",
      "enemy_fire", "player_laser_hit_enemy", "enemy_laser_hit_player",
      "player_fire", "enemy_move">>

\* The systems that run at any place among those of Chain.
FreeSystems == {"movement", "enemy_spawn", "update_scoreboard"}

\* The systems that read what sys writes at once (not through Commands), or
\* write what it reads: the translation and the velocity of enemies and
\* lasers for movement (the player stays where it is), EnemyCount and
\* MaxEnemies for enemy_spawn, Score and MaxEnemies for update_scoreboard
\* (it writes LaserUpgrage, which player_fire reads, at LASER_UPGRADE_SCORE
\* only).
Conflicts(sys) ==
    CASE sys = "movement" ->
            {"enemy_move", "enemy_fire", "player_laser_hit_enemy",
             "enemy_laser_hit_player"}
      [] sys = "enemy_spawn" ->
            {"enemy_move", "game_over", "player_laser_hit_enemy",
             "update_scoreboard"}
      [] sys = "update_scoreboard" ->
            {"player_laser_hit_enemy", "enemy_spawn"}
            \cup (IF score = LASER_UPGRADE_SCORE THEN {"player_fire"} ELSE {})

\* A fault of in_state: the systems of Playing run in MainMenu as well.
in_state_or_menu(s) == state = s \/ (s = "Playing" /\ state = "MainMenu")

\* A fault of in_state: the systems of Playing run in every state.
in_state_or_playing(s) == state = s \/ s = "Playing"

\* in_state(GameState::s)
in_state(s) == state = s

\* The run condition of a system, and its Res<WinSize> / Res<GameTextures>
\* parameters being there.
Runs(sys) ==
    CASE sys = "player_input" -> resources
      [] sys = "player_fire" -> resources
      [] sys = "enemy_move" -> resources /\ "enemy_move" \notin ran
      [] sys = "enemy_fire" -> resources /\ fire_timer.finished
      [] sys = "enemy_spawn" -> resources /\ spawn_timer.finished
      [] sys = "movement" -> resources
      [] sys = "game_over" -> in_state("GameOver")
      [] sys = "start_game" -> in_state("MainMenu")
      [] sys = "player_laser_hit_enemy" -> in_state("Playing") /\ resources
      [] sys = "enemy_laser_hit_player" -> in_state("Playing") /\ resources
      [] sys = "update_scoreboard" -> in_state("Playing")
      [] sys = "explosion_animation" -> TRUE

\* The place of a system in Chain.
Pos(sys) == CHOOSE i \in DOMAIN Chain : Chain[i] = sys

NextChain ==
    LET S == {i \in (chain + 1)..Len(Chain) : Runs(Chain[i])}
    IN IF S = {} THEN Len(Chain) + 1
       ELSE CHOOSE i \in S : \A j \in S : i <= j

\* sys has yet to run in this frame.
Pending(sys) == sys \in FreeSystems \ ran /\ Runs(sys)

\* No system of Chain that sys conflicts with is left to run: sys runs now,
\* since every later place gives the same frame.
Due(sys) ==
    \A i \in (chain + 1)..Len(Chain) :
        Runs(Chain[i]) => Chain[i] \notin Conflicts(sys)

Turn(sys) ==
    /\ pc = "update" /\ panic = "none"
    /\ NextChain <= Len(Chain) /\ Chain[NextChain] = sys
    /\ \A other \in FreeSystems : Pending(other) => ~Due(other)

\* sys is next to a system it conflicts with.  Any other place among the
\* systems of Chain gives the same frame as one of these.
Adjacent(sys) ==
    IF NextChain > Len(Chain) THEN TRUE
    ELSE Chain[NextChain] \in Conflicts(sys)

Free(sys) ==
    /\ pc = "update" /\ panic = "none"
    /\ Pending(sys)
    /\ \/ Adjacent(sys)
       \/ Due(sys)
       \/ \E other \in FreeSystems \cap Conflicts(sys) :
            Pending(other) /\ (Adjacent(other) \/ Due(other))

\* -------------------------------------------------------- high_score.txt
\* A text is a sequence of characters.
Digits == <<"0", "1", "2", "3", "4", "5", "6", "7", "8", "9">>

IsDigit(c) == \E d \in DOMAIN Digits : Digits[d] = c

DigitValue(c) == (CHOOSE d \in DOMAIN Digits : Digits[d] = c) - 1

\* format!("{}", n) of a u32
RECURSIVE format(_)
format(n) ==
    IF n < 10 THEN <<Digits[n + 1]>>
    ELSE Append(format(n \div 10), Digits[(n % 10) + 1])

\* The digits of a u32 read from the left; -1 stands for Err.
RECURSIVE FromDigits(_, _)
FromDigits(text, value) ==
    IF text = <<>> THEN value
    ELSE IF ~IsDigit(Head(text)) THEN -1
    ELSE FromDigits(Tail(text), value * 10 + DigitValue(Head(text)))

\* str::parse::<u32>: decimal digits, after one "+" at most; -1 stands for
\* Err.
parse(text) ==
    LET digits == IF text # <<>> /\ Head(text) = "+" THEN Tail(text) ELSE text
    IN IF digits = <<>> THEN -1 ELSE FromDigits(digits, 0)

\* A fault of the load: a text that is no number is read as 1.
unwrap_or_one(value) == IF value < 0 THEN 1 ELSE value

\* Result<u32, _>::unwrap_or_default
unwrap_or_default(value) == IF value < 0 THEN 0 ELSE value

\* fs::read_to_string(..).unwrap_or_default(): the empty text when there is
\* no path or the file cannot be read.
read_to_string(file) == IF file.readable THEN file.text ELSE <<>>

\* The high score main reads from high_score.txt.
LoadedHighScore(file) == unwrap_or_default(parse(read_to_string(file)))

\* fs::write, its Result dropped: a file that cannot be written stays as it
\* is.
fs_write(file, text) ==
    IF file.writable THEN [file EXCEPT !.text = text, !.readable = TRUE]
    ELSE file

\* high_score.txt before the first game over: there is none yet.
NoFile == [text |-> <<>>, readable |-> FALSE, writable |-> TRUE]

\* high_score.txt as a session left it.
Saved(n) == [text |-> format(n), readable |-> TRUE, writable |-> TRUE]

\* A trigger that has yet to run: the time it ran for, the times it fired,
\* the time since it last fired and between its last two firings, and the
\* longest frame.
NoFirings == [clock |-> 0, fired |-> 0, since |-> 0, gap |-> 0, longest |-> 0]

\* No collision test is followed by itself.
NoProbe == [size_a |-> <<0, 0>>, size_b |-> <<0, 0>>, offset |-> <<0, 0>>,
            collision |-> "none"]

Init ==
    /\ state = "Startup"
    /\ next_state = "None"
    /\ score = 0
    /\ high_score_file = NoFile
    /\ high_score = LoadedHighScore(high_score_file)
    /\ enemy_count = 0
    /\ max_enemies = INITIAL_MAX_ENEMIES
    /\ laser_velocity_upgrade = FALSE
    /\ resources = FALSE
    /\ ents = <<>>
    /\ despawns = <<>>
    /\ spawns = <<>>
    /\ pc = "startup"
    /\ chain = 0
    /\ ran = {}
    /\ delta = 0
    /\ spawn_timer = [elapsed |-> 0, finished |-> FALSE]
    /\ fire_timer = [elapsed |-> 0, finished |-> FALSE]
    /\ fire_held = FALSE
    /\ panic = "none"
    /\ wrapped = FALSE
    /\ score0 = 0
    /\ session = 0
    /\ firings = NoFirings
    /\ probe = NoProbe

\* setup, in the Startup schedule.  Without a primary window it returns
\* before the resources are inserted and before next_state is set.
setup ==
    /\ pc = "startup"
    /\ \E primary \in BOOLEAN :
        IF primary
        THEN resources' = TRUE /\ next_state' = "MainMenu"
        ELSE UNCHANGED <<resources, next_state>>
    /\ pc' = "first"
    /\ UNCHANGED <<state, score, high_score, enemy_count, max_enemies,
                   laser_velocity_upgrade, ents, despawns, spawns, chain, ran,
                   delta, spawn_timer, fire_timer, fire_held, panic, wrapped,
                   score0, session, firings, probe, high_score_file>>

\* player_spawn, OnEnter(GameState::MainMenu).
PlayerY == -(win_size.h \div 2) + HalfExtent(PLAYER_SIZE)[2]

player_spawn == Entity("Player", 0, PlayerY, 0, 0, TRUE, FALSE, 0)

\* A fault of the plugin: player_spawn runs on entering every state.
EnteredEveryState(to) == SortEnts(Append(ents, player_spawn))

\* The entities after StateTransition: OnEnter's commands are applied
\* before Update runs.
Entered(to) ==
    IF to = "MainMenu" THEN SortEnts(Append(ents, player_spawn)) ELSE ents

\* First .. StateTransition: the clock, the run-condition timers, and the
\* queued state change with its OnEnter schedule.
BeginFrame ==
    /\ pc = "first" /\ panic = "none"
    /\ resources
    /\ next_state = "Playing" => session <= MaxSessions
    /\ \E d \in 1..MaxDelta :
        /\ delta' = d
        /\ spawn_timer' = on_timer(spawn_timer, d)
        /\ fire_timer' = on_timer(fire_timer, d)
    /\ IF next_state # "None"
       THEN /\ state' = next_state
            /\ next_state' = "None"
            /\ ents' = Entered(next_state)
       ELSE UNCHANGED <<state, next_state, ents>>
    /\ Len(ents') <= MaxEnts
    /\ despawns' = [i \in 1..Len(ents') |-> 0]
    /\ spawns' = <<>>
    /\ chain' = 0
    /\ ran' = {}
    /\ pc' = "update"
    /\ score0' = score
    /\ UNCHANGED <<score, high_score, enemy_count, max_enemies,
                   laser_velocity_upgrade, resources, fire_held, panic,
                   wrapped, session, firings, probe, high_score_file>>

\* A frame without WinSize and GameTextures: the systems that take them fail
\* their parameter validation.  The process dies of it.
MissingResources ==
    /\ pc = "first" /\ panic = "none"
    /\ ~resources
    /\ panic' = "param"
    /\ UNCHANGED <<state, next_state, score, high_score, enemy_count,
                   max_enemies, laser_velocity_upgrade, resources, ents,
                   despawns, spawns, pc, chain, ran, delta, spawn_timer,
                   fire_timer, fire_held, wrapped, score0, session,
                   firings, probe, high_score_file>>

RECURSIVE Survivors(_)
Survivors(i) ==
    IF i > Len(ents) THEN <<>>
    ELSE (IF despawns[i] > 0 THEN <<>> ELSE <<ents[i]>>) \o Survivors(i + 1)

\* The end of Update: the deferred commands are applied.  The entities
\* number MaxEnts at most (a frame that began with more is followed as it
\* is).
EndFrame ==
    /\ pc = "update" /\ panic = "none"
    /\ NextChain > Len(Chain)
    /\ \A sys \in FreeSystems : Runs(sys) => sys \in ran
    /\ \/ Len(Survivors(1)) + Len(spawns) <= MaxEnts
       \/ Len(ents) > MaxEnts
    /\ ents' = SortEnts(Survivors(1) \o spawns)
    /\ despawns' = <<>>
    /\ spawns' = <<>>
    /\ pc' = "first"
    /\ chain' = 0
    /\ ran' = {}
    /\ delta' = 0
    /\ score0' = score
    /\ UNCHANGED <<state, next_state, score, high_score, enemy_count,
                   max_enemies, laser_velocity_upgrade, resources,
                   spawn_timer, fire_timer, fire_held, panic, wrapped,
                   session, firings, probe, high_score_file>>

\* --------------------------------------------------------------- systems
Abs(n) == IF n < 0 THEN -n ELSE n

\* The process dies of an arithmetic overflow (a build with overflow checks;
\* such a build never wrapped before).
PanicOverflow ==
    /\ ~wrapped
    /\ panic' = "overflow"
    /\ UNCHANGED <<state, next_state, score, high_score, enemy_count,
                   max_enemies, laser_velocity_upgrade, resources, ents,
                   despawns, spawns, pc, chain, ran, delta, spawn_timer,
                   fire_timer, fire_held, wrapped, score0, session,
                   firings, probe, high_score_file>>

\* commands.entity(e).despawn() for every e of S.
Despawn(S) == [i \in Ids |-> despawns[i] + (IF i \in S THEN 1 ELSE 0)]

\* The spawns queued fit the entities followed: those not yet despawned and
\* the queue number MaxEnts at most (a frame that began with more is followed
\* as it is).
Room(queue) ==
    \/ Cardinality({i \in Ids : despawns[i] = 0}) + Len(queue) <= MaxEnts
    \/ Len(ents) > MaxEnts

\* KeyA, KeyD or neither.
MoveInputs == {0}

\* The velocity player_input sets for the input x at translation.x = tx.
PlayerVelocity(tx, x) ==
    IF 2 * tx < -win_size.w + PLAYER_SIZE[2] /\ x < 0 THEN 0
    ELSE IF 2 * tx > win_size.w - PLAYER_SIZE[2] /\ x > 0 THEN 0
    ELSE x

player_input ==
    /\ Turn("player_input")
    /\ chain' = NextChain
    /\ IF NumOf("Player") = 1
       THEN LET p == CHOOSE i \in IdsOf("Player") : TRUE
            IN \E x \in MoveInputs :
                ents' = [ents EXCEPT ![p].vx = PlayerVelocity(ents[p].x, x)]
       ELSE UNCHANGED ents
    /\ UNCHANGED <<state, next_state, score, high_score, enemy_count,
                   max_enemies, laser_velocity_upgrade, resources, despawns,
                   spawns, pc, ran, delta, spawn_timer, fire_timer, fire_held,
                   panic, wrapped, score0, session, firings,
                   probe, high_score_file>>

\* PLAYER_SIZE.0 / 2 * SPRITE_SCALE - 5 px
PlayerLaserOffset == HalfExtent(PLAYER_SIZE)[1]

PlayerLaser(x, y, vy) == Entity("PlayerLaser", x, y, 0, vy, TRUE, TRUE, 0)

\* A fault of player_fire: it fires with PLAYER_MAX_LASERS lasers alive.
CanFireAtCap(just_pressed) ==
    /\ NumOf("Player") = 1
    /\ just_pressed
    /\ NumOf("PlayerLaser") <= PLAYER_MAX_LASERS

\* A fault of player_fire: the lasers alive are not counted.
FiresAtCap(just_pressed) == NumOf("Player") = 1 /\ just_pressed

\* The condition under which player_fire spawns its two lasers.
CanFire(just_pressed) ==
    /\ NumOf("Player") = 1
    /\ just_pressed
    /\ NumOf("PlayerLaser") < PLAYER_MAX_LASERS

player_fire ==
    /\ Turn("player_fire")
    /\ chain' = NextChain
    /\ \E pressed \in BOOLEAN :
        /\ fire_held' = pressed
        /\ IF CanFire(pressed /\ ~fire_held)
           THEN LET p == ents[CHOOSE i \in IdsOf("Player") : TRUE]
                    laser_velocity == IF laser_velocity_upgrade THEN 2 ELSE 1
                IN spawns' = SortEnts(spawns \o
                     <<PlayerLaser(p.x + PlayerLaserOffset, p.y, laser_velocity),
                       PlayerLaser(p.x - PlayerLaserOffset, p.y, laser_velocity)>>)
           ELSE UNCHANGED spawns
        /\ Room(spawns')
    /\ UNCHANGED <<state, next_state, score, high_score, enemy_count,
                   max_enemies, laser_velocity_upgrade, resources, ents,
                   despawns, pc, ran, delta, spawn_timer, fire_timer, panic,
                   wrapped, score0, session, firings, probe, high_score_file>>

\* The cells of rng.random_range(-span..span), span = size / 2 - 100 px.
SpawnRange(size) == {c \in -size..size : 2 * Abs(c) < size - 1}

Enemy(x, y) == Entity("Enemy", x, y, 0, 0, TRUE, FALSE, 0)

\* The cap enemy_spawn compares enemy_count with: the MaxEnemies resource.
EnemyCap == max_enemies

enemy_spawn ==
    /\ Free("enemy_spawn")
    /\ ran' = ran \cup {"enemy_spawn"}
    /\ IF U32Lt(enemy_count, EnemyCap)
       THEN /\ \E x \in SpawnRange(win_size.w), y \in SpawnRange(win_size.h) :
                 spawns' = SortEnts(Append(spawns, Enemy(x, y)))
            /\ Room(spawns')
            /\ enemy_count' = enemy_count + 1
       ELSE UNCHANGED <<spawns, enemy_count>>
    /\ UNCHANGED <<state, next_state, score, high_score, max_enemies,
                   laser_velocity_upgrade, resources, ents, despawns, pc,
                   chain, delta, spawn_timer, fire_timer, fire_held, panic,
                   wrapped, score0, session, firings, probe, high_score_file>>

\* The draws of rng.random_range(-0.05..=0.05) for x and y, in steps of the
\* velocity lattice.  The horizontal draw is held at 0.
VelocityDraws == {<<0, dy>> : dy \in {-1, 0, 1}}

\* enemy_move has an enemy to despawn, and the next system counts enemies
\* down too.
Ahead ==
    /\ pc = "update" /\ panic = "none"
    /\ Runs("enemy_move")
    /\ \E i \in IdsOf("Enemy") : OutOfBounds(ents[i].x, ents[i].y)
    /\ IF NextChain > Len(Chain) THEN FALSE
       ELSE Chain[NextChain] \in {"player_laser_hit_enemy", "game_over"}

enemy_move ==
    /\ Turn("enemy_move") \/ Ahead
    /\ LET E == IdsOf("Enemy")
           oob == {i \in E : OutOfBounds(ents[i].x, ents[i].y)}
           n == Cardinality(oob)
       IN \/ Underflows(enemy_count, n) /\ PanicOverflow
          \/ /\ \E f \in [E -> VelocityDraws] :
                  /\ \A i \in E : /\ Abs(ents[i].vx + f[i][1]) <= MaxVel
                                  /\ Abs(ents[i].vy + f[i][2]) <= MaxVel
                  /\ ents' = [i \in Ids |->
                                IF i \in E
                                THEN [ents[i] EXCEPT !.vx = @ + f[i][1],
                                                     !.vy = @ + f[i][2]]
                                ELSE ents[i]]
             /\ despawns' = Despawn(oob)
             /\ enemy_count' = enemy_count - n
             /\ wrapped' = (wrapped \/ Underflows(enemy_count, n))
             /\ ran' = ran \cup {"enemy_move"}
             /\ chain' = IF Turn("enemy_move") THEN NextChain ELSE chain
             /\ UNCHANGED <<state, next_state, score, high_score, max_enemies,
                            laser_velocity_upgrade, resources, spawns, pc,
                            delta, spawn_timer, fire_timer, fire_held, panic,
                            score0, session, firings, probe, high_score_file>>

\* ENEMY_SIZE.0 / 2 * SPRITE_SCALE - 25 px
EnemyLaserOffset == HalfExtent(ENEMY_SIZE)[1]

EnemyLaser(x, y) == Entity("EnemyLaser", x, y, 0, -1, TRUE, TRUE, 0)

RECURSIVE EnemyLasers(_)
EnemyLasers(E) ==
    IF E = {} THEN <<>>
    ELSE LET i == CHOOSE j \in E : TRUE
         IN <<EnemyLaser(ents[i].x + EnemyLaserOffset, ents[i].y),
              EnemyLaser(ents[i].x - EnemyLaserOffset, ents[i].y)>>
            \o EnemyLasers(E \ {i})

enemy_fire ==
    /\ Turn("enemy_fire")
    /\ chain' = NextChain
    /\ spawns' = SortEnts(spawns \o EnemyLasers(IdsOf("Enemy")))
    /\ Room(spawns')
    /\ UNCHANGED <<state, next_state, score, high_score, enemy_count,
                   max_enemies, laser_velocity_upgrade, resources, ents,
                   despawns, pc, ran, delta, spawn_timer, fire_timer,
                   fire_held, panic, wrapped, score0, session, firings,
                   probe, high_score_file>>

\* translation += velocity * delta * BASE_SPEED
Moved(e) ==
    IF e.movable
    THEN [e EXCEPT !.x = @ + e.vx * delta * BASE_SPEED,
                   !.y = @ + e.vy * delta * BASE_SPEED]
    ELSE e

\* A fault of movement: it despawns nothing.
StaysAlive(e) == FALSE

\* movable.auto_despawn, and the translation beyond the window and margin.
AutoDespawns(e) == e.auto_despawn /\ OutOfBounds(e.x, e.y)

movement ==
    /\ Free("movement")
    /\ LET moved == [i \in Ids |-> Moved(ents[i])]
           out == {i \in Ids : moved[i].movable /\ AutoDespawns(moved[i])}
           n == Cardinality({i \in out : ents[i].kind = "Enemy"})
       IN \/ Underflows(enemy_count, n) /\ PanicOverflow
          \/ /\ ents' = moved
             /\ despawns' = Despawn(out)
             /\ enemy_count' = enemy_count - n
             /\ wrapped' = (wrapped \/ Underflows(enemy_count, n))
             /\ ran' = ran \cup {"movement"}
             /\ UNCHANGED <<state, next_state, score, high_score, max_enemies,
                            laser_velocity_upgrade, resources, spawns, pc,
                            chain, delta, spawn_timer, fire_timer, fire_held,
                            panic, score0, session, firings,
                            probe, high_score_file>>

\* A fault of game_over's reset: the raised cap is written.
RaisedCap == RAISED_MAX_ENEMIES

\* **max_enemies = 3
ResetCap == RESET_MAX_ENEMIES

\* A fault of game_over's wait: the explosions are not looked at.
NeverWaits == TRUE

\* explosion_query.iter().len() == 0
NoExplosions == NumOf("Explosion") = 0

\* A fault of the comparison: every score is a new high score.
AnyScore(s, h) == TRUE

\* **score > **high_score
Exceeds(s, h) == s > h

\* game_over's cleanup and, once no Explosion is left, the high score and
\* the way back to the menu.
game_over ==
    /\ Turn("game_over")
    /\ LET E == IdsOf("Enemy")
           n == Cardinality(E)
       IN \/ Underflows(enemy_count, n) /\ PanicOverflow
          \/ /\ max_enemies' = ResetCap
             /\ laser_velocity_upgrade' = FALSE
             /\ despawns' = Despawn(E)
             /\ enemy_count' = enemy_count - n
             /\ wrapped' = (wrapped \/ Underflows(enemy_count, n))
             /\ IF NoExplosions
                THEN /\ high_score' = IF Exceeds(score, high_score)
                                      THEN score ELSE high_score
                     /\ high_score_file' =
                          IF Exceeds(score, high_score)
                          THEN fs_write(high_score_file, format(score))
                          ELSE high_score_file
                     /\ next_state' = "MainMenu"
                ELSE UNCHANGED <<high_score, high_score_file, next_state>>
             /\ chain' = NextChain
             /\ UNCHANGED <<state, score, resources, ents, spawns, pc, ran,
                            delta, spawn_timer, fire_timer, fire_held, panic,
                            score0, session, firings, probe>>

\* A fault of start_game: the score of the session before is kept.
KeptScore(s) == s

\* **score = 0
ResetScore(s) == 0

start_game ==
    /\ Turn("start_game")
    /\ chain' = NextChain
    /\ \E enter \in BOOLEAN :
        IF enter
        THEN /\ session <= MaxSessions
             /\ score' = ResetScore(score)
             /\ next_state' = "Playing"
             /\ session' = session + 1
        ELSE UNCHANGED <<score, next_state, session>>
    /\ UNCHANGED <<state, high_score, enemy_count, max_enemies,
                   laser_velocity_upgrade, resources, ents, despawns, spawns,
                   pc, ran, delta, spawn_timer, fire_timer, fire_held, panic,
                   wrapped, score0, firings, probe, high_score_file>>

update_scoreboard ==
    /\ Free("update_scoreboard")
    /\ ran' = ran \cup {"update_scoreboard"}
    /\ max_enemies' = IF score = MAX_ENEMIES_SCORE THEN RAISED_MAX_ENEMIES
                      ELSE max_enemies
    /\ laser_velocity_upgrade' = IF score = LASER_UPGRADE_SCORE THEN TRUE
                                 ELSE laser_velocity_upgrade
    /\ UNCHANGED <<state, next_state, score, high_score, enemy_count,
                   resources, ents, despawns, spawns, pc, chain, delta,
                   spawn_timer, fire_timer, fire_held, panic, wrapped, score0,
                   session, firings, probe, high_score_file>>

\* The score one point short of the laser upgrade.
LateScore == LASER_UPGRADE_SCORE - 1

\* The scores followed: those of a session's start, and those about the
\* laser upgrade.
Followed(s) ==
    \/ s <= MaxScore
    \/ s >= LateScore /\ s <= LateScore + MaxLate

Explosion(x, y) == Entity("Explosion", x, y, 0, 0, FALSE, FALSE, 0)

\* A fault of the guard: a laser that hit goes on to the next enemy.
EnemyDespawned(despawned_entities, laser_entity, enemy_entity) ==
    enemy_entity \in despawned_entities

\* A fault of the guard: an enemy that was hit is hit again.
LaserDespawned(despawned_entities, laser_entity, enemy_entity) ==
    laser_entity \in despawned_entities

\* The guard of the inner loop of player_laser_hit_enemy.
AlreadyDespawned(despawned_entities, laser_entity, enemy_entity) ==
    \/ enemy_entity \in despawned_entities
    \/ laser_entity \in despawned_entities

\* The inner loop of player_laser_hit_enemy for one laser: the pairs it
\* resolves, the enemies taken in the order eo.
RECURSIVE LaserHits(_, _, _)
LaserHits(laser, eo, gone) ==
    IF eo = <<>> THEN <<>>
    ELSE LET enemy == Head(eo)
         IN IF AlreadyDespawned(gone, laser, enemy)
            THEN LaserHits(laser, Tail(eo), gone)
            ELSE IF Collision(ents[laser], ents[enemy])
            THEN <<<<laser, enemy>>>>
                 \o LaserHits(laser, Tail(eo), gone \cup {laser, enemy})
            ELSE LaserHits(laser, Tail(eo), gone)

PairIds(hits) == UNION {{hits[k][1], hits[k][2]} : k \in DOMAIN hits}

\* The outer loop: the lasers taken in the order lo.
RECURSIVE AllHits(_, _, _)
AllHits(lo, eo, gone) ==
    IF lo = <<>> THEN <<>>
    ELSE IF Head(lo) \in gone THEN AllHits(Tail(lo), eo, gone)
    ELSE LET h == LaserHits(Head(lo), eo, gone)
         IN h \o AllHits(Tail(lo), eo, gone \cup PairIds(h))

\* despawn() of both entities of every pair.
DespawnPairs(hits) ==
    [i \in Ids |-> despawns[i]
        + Cardinality({k \in DOMAIN hits : hits[k][1] = i})
        + Cardinality({k \in DOMAIN hits : hits[k][2] = i})]

\* The Explosion spawned at the second entity of every pair.
Explosions(hits) ==
    [k \in DOMAIN hits |-> Explosion(ents[hits[k][2]].x, ents[hits[k][2]].y)]

player_laser_hit_enemy ==
    /\ Turn("player_laser_hit_enemy")
    /\ \E lo \in Perms(IdsOf("PlayerLaser")), eo \in Perms(IdsOf("Enemy")) :
        LET hits == AllHits(lo, eo, {})
            n == Len(hits)
        IN \/ Underflows(enemy_count, n) /\ PanicOverflow
           \/ /\ Followed(score + n)
              /\ despawns' = DespawnPairs(hits)
              /\ spawns' = SortEnts(spawns \o Explosions(hits))
              /\ score' = score + n
              /\ enemy_count' = enemy_count - n
              /\ wrapped' = (wrapped \/ Underflows(enemy_count, n))
              /\ chain' = NextChain
              /\ UNCHANGED <<state, next_state, high_score, max_enemies,
                             laser_velocity_upgrade, resources, ents, pc, ran,
                             delta, spawn_timer, fire_timer, fire_held, panic,
                             score0, session, firings, probe, high_score_file>>

\* The inner loop of enemy_laser_hit_player for one laser: it breaks at the
\* first hit.
RECURSIVE PlayerHit(_, _, _)
PlayerHit(laser, po, gone) ==
    IF po = <<>> THEN <<>>
    ELSE LET player == Head(po)
         IN IF player \in gone THEN PlayerHit(laser, Tail(po), gone)
            ELSE IF Collision(ents[laser], ents[player])
            THEN <<<<laser, player>>>>
            ELSE PlayerHit(laser, Tail(po), gone)

\* A fault of enemy_laser_hit_player: the hits are not remembered.
RECURSIVE ForgetfulHits(_, _, _)
ForgetfulHits(lo, po, gone) ==
    IF lo = <<>> THEN <<>>
    ELSE PlayerHit(Head(lo), po, gone) \o ForgetfulHits(Tail(lo), po, gone)

RECURSIVE PlayerHits(_, _, _)
PlayerHits(lo, po, gone) ==
    IF lo = <<>> THEN <<>>
    ELSE IF Head(lo) \in gone THEN PlayerHits(Tail(lo), po, gone)
    ELSE LET h == PlayerHit(Head(lo), po, gone)
         IN h \o PlayerHits(Tail(lo), po, gone \cup PairIds(h))

enemy_laser_hit_player ==
    /\ Turn("enemy_laser_hit_player")
    /\ chain' = NextChain
    /\ \E lo \in Perms(IdsOf("EnemyLaser")), po \in Perms(IdsOf("Player")) :
        LET hits == PlayerHits(lo, po, {})
        IN /\ despawns' = DespawnPairs(hits)
           /\ spawns' = SortEnts(spawns \o Explosions(hits))
           /\ next_state' = IF hits # <<>> THEN "GameOver" ELSE next_state
    /\ UNCHANGED <<state, score, high_score, enemy_count, max_enemies,
                   laser_velocity_upgrade, resources, ents, pc, ran, delta,
                   spawn_timer, fire_timer, fire_held, panic, wrapped, score0,
                   session, firings, probe, high_score_file>>

\* ExplosionTimer finishes within every tick of elapsed time.
ExplosionTimerFinished(d) == d >= 1

\* A fault of explosion_animation: the timer is not looked at.
AnimatedEveryFrame(e) ==
    IF e.kind = "Explosion" THEN [e EXCEPT !.index = @ + 1] ELSE e

\* The atlas index of an Explosion after explosion_animation.
Animated(e) ==
    IF e.kind = "Explosion" /\ ExplosionTimerFinished(delta)
    THEN [e EXCEPT !.index = @ + 1]
    ELSE e

explosion_animation ==
    /\ Turn("explosion_animation")
    /\ chain' = NextChain
    /\ ents' = [i \in Ids |-> Animated(ents[i])]
    /\ despawns' = Despawn({i \in IdsOf("Explosion") :
                               /\ ExplosionTimerFinished(delta)
                               /\ ents[i].index + 1 >= EXPLOSION_LEN})
    /\ UNCHANGED <<state, next_state, score, high_score, enemy_count,
                   max_enemies, laser_velocity_upgrade, resources, spawns, pc,
                   ran, delta, spawn_timer, fire_timer, fire_held, panic,
                   wrapped, score0, session, firings, probe, high_score_file>>

Next ==
    \/ setup
    \/ BeginFrame
    \/ MissingResources
    \/ player_input
    \/ player_fire
    \/ enemy_spawn
    \/ enemy_move
    \/ enemy_fire
    \/ movement
    \/ game_over
    \/ start_game
    \/ update_scoreboard
    \/ player_laser_hit_enemy
    \/ enemy_laser_hit_player
    \/ explosion_animation
    \/ EndFrame

Spec == Init /\ [][Next]_vars

\* ------------------------------------------------------- a late session
\* The high score an earlier session left: the score of the laser upgrade.
LateHighScores == {LASER_UPGRADE_SCORE}

\* Between two frames of a Playing session that has reached LateScore and
\* has, at this moment, no enemy and no laser alive.  The cap was raised at
\* MAX_ENEMIES_SCORE.
InitLate ==
    /\ state = "Playing"
    /\ next_state = "None"
    /\ score = LateScore
    /\ \E h \in LateHighScores : high_score_file = Saved(h)
    /\ high_score = LoadedHighScore(high_score_file)
    /\ enemy_count = 0
    /\ max_enemies = RAISED_MAX_ENEMIES
    /\ laser_velocity_upgrade = FALSE
    /\ resources = TRUE
    /\ ents = <<player_spawn>>
    /\ despawns = <<>>
    /\ spawns = <<>>
    /\ pc = "first"
    /\ chain = 0
    /\ ran = {}
    /\ delta = 0
    /\ spawn_timer = [elapsed |-> 0, finished |-> FALSE]
    /\ fire_timer = [elapsed |-> 0, finished |-> FALSE]
    /\ fire_held = FALSE
    /\ panic = "none"
    /\ wrapped = FALSE
    /\ score0 = LateScore
    /\ session = MaxSessions
    /\ firings = NoFirings
    /\ probe = NoProbe

NextLate ==
    \/ BeginFrame
    \/ EndFrame
    \/ player_input
    \/ player_fire
    \/ enemy_spawn
    \/ enemy_move
    \/ enemy_fire
    \/ movement
    \/ game_over
    \/ start_game
    \/ update_scoreboard
    \/ player_laser_hit_enemy
    \/ enemy_laser_hit_player
    \/ explosion_animation

SpecLate == InitLate /\ [][NextLate]_vars

\* ------------------------------------------------ the triggers by themselves
\* A frame's Time::delta, from an empty frame to one of two intervals.
TimerDeltas == 0..(2 * TIMER_TICKS)

InitTimer ==
    /\ state = "Startup"
    /\ next_state = "None"
    /\ score = 0
    /\ high_score_file = NoFile
    /\ high_score = 0
    /\ enemy_count = 0
    /\ max_enemies = INITIAL_MAX_ENEMIES
    /\ laser_velocity_upgrade = FALSE
    /\ resources = FALSE
    /\ ents = <<>>
    /\ despawns = <<>>
    /\ spawns = <<>>
    /\ pc = "timer"
    /\ chain = 0
    /\ ran = {}
    /\ delta = 0
    /\ spawn_timer = [elapsed |-> 0, finished |-> FALSE]
    /\ fire_timer = [elapsed |-> 0, finished |-> FALSE]
    /\ fire_held = FALSE
    /\ panic = "none"
    /\ wrapped = FALSE
    /\ score0 = 0
    /\ session = 0
    /\ firings = NoFirings
    /\ probe = NoProbe

\* One frame of the two run conditions, and what it adds to the history of
\* enemy_spawn's trigger.
timer_frame ==
    /\ pc = "timer"
    /\ \E d \in TimerDeltas :
        /\ firings.clock + d <= MaxClock
        /\ delta' = d
        /\ spawn_timer' = on_timer(spawn_timer, d)
        /\ fire_timer' = on_timer(fire_timer, d)
        /\ firings' =
             IF spawn_timer'.finished
             THEN [clock |-> firings.clock + d,
                   fired |-> firings.fired + 1,
                   since |-> 0,
                   gap |-> firings.since + d,
                   longest |-> IF d > firings.longest THEN d
                               ELSE firings.longest]
             ELSE [clock |-> firings.clock + d,
                   fired |-> firings.fired,
                   since |-> firings.since + d,
                   gap |-> firings.gap,
                   longest |-> IF d > firings.longest THEN d
                               ELSE firings.longest]
    /\ UNCHANGED <<state, next_state, score, high_score, enemy_count,
                   max_enemies, laser_velocity_upgrade, resources, ents,
                   despawns, spawns, pc, chain, ran, fire_held, panic,
                   wrapped, score0, session, probe, high_score_file>>

NextTimer == timer_frame

SpecTimer == InitTimer /\ [][NextTimer]_vars

\* ------------------------------------------------- player_fire by itself
\* The player lasers alive when player_fire runs: none to one more than
\* PLAYER_MAX_LASERS.
FireLasers == 0..(PLAYER_MAX_LASERS + 1)

RECURSIVE Lasers(_)
Lasers(k) ==
    IF k = 0 THEN <<>> ELSE Append(Lasers(k - 1), PlayerLaser(0, 0, 1))

\* A Playing frame at the point where player_fire is the next system to
\* run: with or without the player, with any number of player lasers, ArrowUp
\* held or not in the frame before, the upgrade reached or not.
InitFire ==
    /\ state = "Playing"
    /\ next_state = "None"
    /\ laser_velocity_upgrade \in BOOLEAN
    /\ score = (IF laser_velocity_upgrade THEN LASER_UPGRADE_SCORE ELSE 0)
    /\ high_score_file = NoFile
    /\ high_score = 0
    /\ enemy_count = 0
    /\ max_enemies = (IF laser_velocity_upgrade THEN RAISED_MAX_ENEMIES
                      ELSE INITIAL_MAX_ENEMIES)
    /\ resources = TRUE
    /\ \E alive \in BOOLEAN, k \in FireLasers :
         ents = SortEnts((IF alive THEN <<player_spawn>> ELSE <<>>)
                         \o Lasers(k))
    /\ despawns = [i \in 1..Len(ents) |-> 0]
    /\ spawns = <<>>
    /\ pc = "update"
    /\ chain = Pos("player_fire") - 1
    /\ ran = FreeSystems
    /\ delta = 1
    /\ spawn_timer = [elapsed |-> 1, finished |-> FALSE]
    /\ fire_timer = [elapsed |-> 1, finished |-> FALSE]
    /\ fire_held \in BOOLEAN
    /\ panic = "none"
    /\ wrapped = FALSE
    /\ score0 = score
    /\ session = 1
    /\ firings = NoFirings
    /\ probe = NoProbe

\* player_fire, and the rest of the frame: enemy_move, with no enemy, and
\* the frame's commands.
NextFire ==
    \/ player_fire
    \/ enemy_move
    \/ EndFrame

SpecFire == InitFire /\ [][NextFire]_vars

\* ---------------------------------------------- the collision test by itself
\* SpriteSize values a quarter of which is whole: the half extent
\* size * SPRITE_SCALE / 2 is exact.
BoxSizes == {<<4, 8>>, <<12, 4>>}

\* The translation of the second box, the first being at the origin.
BoxOffsets == (-MaxOffset..MaxOffset) \X (-MaxOffset..MaxOffset)

\* Two entities about to be tested by a collision pass.
InitBox ==
    /\ state = "Playing"
    /\ next_state = "None"
    /\ score = 0
    /\ high_score_file = NoFile
    /\ high_score = 0
    /\ enemy_count = 0
    /\ max_enemies = INITIAL_MAX_ENEMIES
    /\ laser_velocity_upgrade = FALSE
    /\ resources = TRUE
    /\ ents = <<>>
    /\ despawns = <<>>
    /\ spawns = <<>>
    /\ pc = "box"
    /\ chain = 0
    /\ ran = {}
    /\ delta = 0
    /\ spawn_timer = [elapsed |-> 0, finished |-> FALSE]
    /\ fire_timer = [elapsed |-> 0, finished |-> FALSE]
    /\ fire_held = FALSE
    /\ panic = "none"
    /\ wrapped = FALSE
    /\ score0 = 0
    /\ session = 1
    /\ firings = NoFirings
    /\ \E sa \in BoxSizes, sb \in BoxSizes, o \in BoxOffsets :
         probe = [size_a |-> sa, size_b |-> sb, offset |-> o,
                  collision |-> "none"]

\* let collision = Aabb2d::new(..).intersects(&Aabb2d::new(..))
collision_test ==
    /\ pc = "box"
    /\ probe.collision = "none"
    /\ probe' = [probe EXCEPT !.collision =
                   IF Intersects(
                        Aabb2d(0, 0, HalfExtent(probe.size_a)),
                        Aabb2d(probe.offset[1], probe.offset[2],
                               HalfExtent(probe.size_b)))
                   THEN "yes" ELSE "no"]
    /\ UNCHANGED <<state, next_state, score, high_score, enemy_count,
                   max_enemies, laser_velocity_upgrade, resources, ents,
                   despawns, spawns, pc, chain, ran, delta, spawn_timer,
                   fire_timer, fire_held, panic, wrapped, score0, session,
                   firings, high_score_file>>

NextBox == collision_test

SpecBox == InitBox /\ [][NextBox]_vars

\* ------------------------------------------- the high score of a session
\* high_score.txt when main read it: no path to it, no file yet, a text that
\* is no number, a number and a line end in a file that cannot be written,
\* a number with its sign, the high scores of earlier sessions.
SaveFiles ==
    {[text |-> <<>>, readable |-> FALSE, writable |-> FALSE],
     NoFile,
     [text |-> <<"x">>, readable |-> TRUE, writable |-> TRUE],
     [text |-> <<"5", "\n">>, readable |-> TRUE, writable |-> FALSE],
     [text |-> <<"+", "5">>, readable |-> TRUE, writable |-> TRUE],
     [Saved(5) EXCEPT !.writable = FALSE],
     Saved(5), Saved(10)}

\* The score the session ended with.
SaveScore == 6

\* Between two frames of GameOver, in the first session since main read the
\* high score: the player's Explosion is at its last frame.
InitSave ==
    /\ state = "GameOver"
    /\ next_state = "None"
    /\ score = SaveScore
    /\ high_score_file \in SaveFiles
    /\ high_score = LoadedHighScore(high_score_file)
    /\ enemy_count = 0
    /\ max_enemies = RESET_MAX_ENEMIES
    /\ laser_velocity_upgrade = FALSE
    /\ resources = TRUE
    /\ ents = <<[Explosion(0, PlayerY) EXCEPT !.index = EXPLOSION_LEN - 1]>>
    /\ despawns = <<>>
    /\ spawns = <<>>
    /\ pc = "first"
    /\ chain = 0
    /\ ran = {}
    /\ delta = 0
    /\ spawn_timer = [elapsed |-> 0, finished |-> FALSE]
    /\ fire_timer = [elapsed |-> 0, finished |-> FALSE]
    /\ fire_held = FALSE
    /\ panic = "none"
    /\ wrapped = FALSE
    /\ score0 = score
    /\ session = MaxSessions + 1
    /\ firings = NoFirings
    /\ probe = NoProbe

NextSave ==
    \/ BeginFrame
    \/ EndFrame
    \/ player_input
    \/ player_fire
    \/ enemy_spawn
    \/ enemy_move
    \/ enemy_fire
    \/ movement
    \/ game_over
    \/ start_game
    \/ explosion_animation

SpecSave == InitSave /\ [][NextSave]_vars

\* ------------------------------------------------- the way into the menu
\* The state after construction, no session being followed: Enter is not
\* pressed.
InitStartup ==
    /\ state = "Startup"
    /\ next_state = "None"
    /\ score = 0
    /\ high_score_file = NoFile
    /\ high_score = LoadedHighScore(high_score_file)
    /\ enemy_count = 0
    /\ max_enemies = INITIAL_MAX_ENEMIES
    /\ laser_velocity_upgrade = FALSE
    /\ resources = FALSE
    /\ ents = <<>>
    /\ despawns = <<>>
    /\ spawns = <<>>
    /\ pc = "startup"
    /\ chain = 0
    /\ ran = {}
    /\ delta = 0
    /\ spawn_timer = [elapsed |-> 0, finished |-> FALSE]
    /\ fire_timer = [elapsed |-> 0, finished |-> FALSE]
    /\ fire_held = FALSE
    /\ panic = "none"
    /\ wrapped = FALSE
    /\ score0 = 0
    /\ session = MaxSessions + 1
    /\ firings = NoFirings
    /\ probe = NoProbe

NextStartup ==
    \/ setup
    \/ BeginFrame
    \/ MissingResources
    \/ EndFrame
    \/ player_input
    \/ player_fire
    \/ enemy_spawn
    \/ enemy_move
    \/ enemy_fire
    \/ movement
    \/ start_game
    \/ explosion_animation

\* The app runs its schedules for as long as a step of them can be taken.
SpecStartup == InitStartup /\ [][NextStartup]_vars /\ WF_vars(NextStartup)

\* --------------------------------------------------- the end of a session
\* A state the first session reaches as the player is hit: GameOver is
\* requested, the player's Explosion is at its first frame, and of the two
\* enemies one has gone below the window and its margin.
InitOver ==
    /\ state = "Playing"
    /\ next_state = "GameOver"
    /\ score = 0
    /\ high_score_file = NoFile
    /\ high_score = LoadedHighScore(high_score_file)
    /\ enemy_count = 2
    /\ max_enemies = INITIAL_MAX_ENEMIES
    /\ laser_velocity_upgrade = FALSE
    /\ resources = TRUE
    /\ ents = SortEnts(<<[Enemy(0, -3) EXCEPT !.vy = -1],
                         [Enemy(0, -1) EXCEPT !.vy = -1],
                         EnemyLaser(0, -2),
                         Explosion(0, PlayerY)>>)
    /\ despawns = <<>>
    /\ spawns = <<>>
    /\ pc = "first"
    /\ chain = 0
    /\ ran = {}
    /\ delta = 0
    /\ spawn_timer = [elapsed |-> 1, finished |-> FALSE]
    /\ fire_timer = [elapsed |-> 1, finished |-> FALSE]
    /\ fire_held = FALSE
    /\ panic = "none"
    /\ wrapped = FALSE
    /\ score0 = 0
    /\ session = MaxSessions
    /\ firings = NoFirings
    /\ probe = NoProbe

NextOver ==
    \/ BeginFrame
    \/ EndFrame
    \/ player_input
    \/ player_fire
    \/ enemy_spawn
    \/ enemy_move
    \/ enemy_fire
    \/ movement
    \/ game_over
    \/ start_game
    \/ explosion_animation

\* The app runs its schedules for as long as a step of them can be taken.
SpecOver == InitOver /\ [][NextOver]_vars /\ WF_vars(NextOver)

\* ------------------------------------------------ one frame of explosions
\* Time::delta of the frame: none (the first frame, a paused clock) or a
\* tick.
ExplosionDeltas == {0, 1}

\* The atlas index of the second Explosion: its first and its last.
ExplosionIndexes == {0, EXPLOSION_LEN - 1}

\* A Playing frame as its first system is about to run: two Explosions at
\* any frame of theirs, and a player laser on an enemy.
InitExplosion ==
    /\ state = "Playing"
    /\ next_state = "None"
    /\ score = 0
    /\ high_score_file = NoFile
    /\ high_score = LoadedHighScore(high_score_file)
    /\ enemy_count = 1
    /\ max_enemies = INITIAL_MAX_ENEMIES
    /\ laser_velocity_upgrade = FALSE
    /\ resources = TRUE
    /\ \E k \in 0..(EXPLOSION_LEN - 1), l \in ExplosionIndexes :
         ents = SortEnts(<<player_spawn, Enemy(0, 0), PlayerLaser(0, 0, 1),
                           [Explosion(0, 1) EXCEPT !.index = k],
                           [Explosion(0, 2) EXCEPT !.index = l]>>)
    /\ despawns = [i \in 1..Len(ents) |-> 0]
    /\ spawns = <<>>
    /\ pc = "update"
    /\ chain = 0
    /\ ran = {}
    /\ delta \in ExplosionDeltas
    /\ spawn_timer = [elapsed |-> 1, finished |-> FALSE]
    /\ fire_timer = [elapsed |-> 1, finished |-> FALSE]
    /\ fire_held = FALSE
    /\ panic = "none"
    /\ wrapped = FALSE
    /\ score0 = 0
    /\ session = 1
    /\ firings = NoFirings
    /\ probe = NoProbe

NextExplosion ==
    \/ explosion_animation
    \/ player_input
    \/ player_laser_hit_enemy
    \/ enemy_laser_hit_player
    \/ player_fire
    \/ enemy_move
    \/ movement
    \/ update_scoreboard
    \/ EndFrame

SpecExplosion == InitExplosion /\ [][NextExplosion]_vars

\* ---------------------------------------------------------------- claims
Min(a, b) == IF a <= b THEN a ELSE b

\* The entities an Update step queued a despawn for.
Despawned == {i \in Ids : despawns'[i] > despawns[i]}

\* How many of the queued spawns are the entity e.
Queued(queue, e) == Cardinality({k \in DOMAIN queue : queue[k] = e})

\* The step is a run of player_laser_hit_enemy, of enemy_laser_hit_player.
PlheStep ==
    pc = "update" /\ chain' # chain /\ chain' = Pos("player_laser_hit_enemy")

ElhpStep ==
    pc = "update" /\ chain' # chain /\ chain' = Pos("enemy_laser_hit_player")

\* The u32 value b is the u32 value a less n.
U32Less(a, b, n) == (a < 0) = (b < 0) /\ a - b = n

\* C1: at every frame boundary, in every flow state, enemy_count equals the
\* number of live Enemy entities.
C1_EnemyCountIsLiveEnemies ==
    (pc = "first" /\ panic = "none") => enemy_count = NumOf("Enemy")

\* C2: enemy_count is never decremented at 0: no build wraps it below 0 and
\* no build dies of the subtraction.
C2_NoUnderflow == ~wrapped /\ panic # "overflow"

\* C3: the flow state changes only along Startup -> MainMenu,
\* MainMenu -> Playing, Playing -> GameOver and GameOver -> MainMenu.
FlowEdges ==
    {<<"Startup", "MainMenu">>, <<"MainMenu", "Playing">>,
     <<"Playing", "GameOver">>, <<"GameOver", "MainMenu">>}

C3_OnlyLegalTransitions ==
    [][state' # state => <<state, state'>> \in FlowEdges]_vars

\* The menu after a session, an enemy laser overlapping the new player.
C3_MenuUnderFire ==
    /\ state = "MainMenu" /\ next_state = "None" /\ session = MaxSessions
    /\ \E l \in IdsOf("EnemyLaser"), p \in IdsOf("Player") :
         Collision(ents[l], ents[p])

\* C4: in GameOver, game_over requests MainMenu in a frame if and only if no
\* Explosion is live in that frame, and nothing else requests a state; the
\* Explosion of the player's death is live, at index 0, when GameOver is
\* entered, and GameOver is left only with no Explosion live.
C4_GameOverWaitsForExplosions ==
    [][/\ (state' = "GameOver" /\ pc' = "update"
              /\ chain' >= Pos("game_over"))
          => (next_state' = "MainMenu" <=> NumOf("Explosion")' = 0)
       /\ (state' = "GameOver" /\ pc' = "update" /\ chain' < Pos("game_over"))
          => next_state' = "None"
       /\ (state # "GameOver" /\ state' = "GameOver")
          => \E i \in DOMAIN ents' :
               ents'[i].kind = "Explosion" /\ ents'[i].index = 0
       /\ (state = "GameOver" /\ state' # "GameOver")
          => (state' = "MainMenu" /\ NumOf("Explosion") = 0)]_vars

\* game_over has found no Explosion and asked for the menu.
C4_MenuRequested ==
    /\ state = "GameOver" /\ pc = "update" /\ chain >= Pos("game_over")
    /\ NumOf("Explosion") = 0 /\ next_state = "MainMenu"

\* C5: in MainMenu the enemy cap is 3 and the laser upgrade is off, whatever
\* score the last session left.
C5_MenuHasBaseCap ==
    state = "MainMenu" =>
        (max_enemies = INITIAL_MAX_ENEMIES /\ ~laser_velocity_upgrade)

\* The menu after a session that passed the threshold of the raised cap.
C5_MenuAfterRaisedCap ==
    /\ state = "MainMenu" /\ session = MaxSessions /\ next_state = "None"
    /\ score >= MAX_ENEMIES_SCORE

\* C6: when enemy_laser_hit_player runs with enemy lasers overlapping the
\* player, it despawns the player and exactly one of those lasers, once each,
\* queues exactly one Explosion, with index 0 at the player's position, and
\* requests GameOver; the request becomes the state of the next frame, whose
\* entities have no Player.
C6_OnePlayerHit ==
    [][/\ (ElhpStep /\ \E l \in IdsOf("EnemyLaser"), p \in IdsOf("Player") :
                          Collision(ents[l], ents[p]))
          => \E p \in IdsOf("Player") :
               LET over == {l \in IdsOf("EnemyLaser") :
                               Collision(ents[l], ents[p])}
                   boom == Explosion(ents[p].x, ents[p].y)
               IN /\ p \in Despawned
                  /\ Cardinality(Despawned \cap over) = 1
                  /\ Despawned \subseteq over \cup {p}
                  /\ \A i \in Despawned : despawns'[i] = despawns[i] + 1
                  /\ Len(spawns') = Len(spawns) + 1
                  /\ Queued(spawns', boom) = Queued(spawns, boom) + 1
                  /\ next_state' = "GameOver"
       /\ (pc = "first" /\ pc' = "update" /\ state = "Playing"
              /\ next_state = "GameOver")
          => state' = "GameOver"
       /\ (pc = "update" /\ pc' = "first" /\ state = "Playing"
              /\ next_state = "GameOver")
          => NumOf("Player")' = 0]_vars

\* The player was hit and a second enemy laser, not despawned, overlaps it.
C6_SecondLaserSpared ==
    /\ state = "Playing" /\ pc = "update" /\ next_state = "GameOver"
    /\ chain >= Pos("enemy_laser_hit_player")
    /\ \E p \in IdsOf("Player"), l \in IdsOf("EnemyLaser"),
          m \in IdsOf("EnemyLaser") :
         /\ despawns[p] = 1 /\ despawns[l] = 1 /\ despawns[m] = 0
         /\ Collision(ents[l], ents[p]) /\ Collision(ents[m], ents[p])

\* C7: a run of player_laser_hit_enemy despawns no entity twice, as many
\* lasers as enemies, every despawned laser with a despawned enemy it
\* overlaps, and leaves no overlapping pair with both entities standing.
C7_OneCollisionEach ==
    [][PlheStep =>
         LET L == IdsOf("PlayerLaser")
             E == IdsOf("Enemy")
         IN /\ \A i \in Ids : despawns'[i] <= despawns[i] + 1
            /\ Despawned \subseteq L \cup E
            /\ Cardinality(Despawned \cap L) = Cardinality(Despawned \cap E)
            /\ \A l \in Despawned \cap L : \E e \in Despawned \cap E :
                 Collision(ents[l], ents[e])
            /\ \A l \in L, e \in E :
                 Collision(ents[l], ents[e]) =>
                    (l \in Despawned \/ e \in Despawned)]_vars

\* After the pass: two enemies overlapped by the same two lasers, all four
\* despawned once.
C7_TwoOnTwo ==
    /\ pc = "update" /\ chain = Pos("player_laser_hit_enemy")
    /\ \E l \in IdsOf("PlayerLaser"), m \in IdsOf("PlayerLaser"),
          e \in IdsOf("Enemy"), f \in IdsOf("Enemy") :
         /\ l # m /\ e # f
         /\ Collision(ents[l], ents[e]) /\ Collision(ents[l], ents[f])
         /\ Collision(ents[m], ents[e]) /\ Collision(ents[m], ents[f])
         /\ despawns[l] = 1 /\ despawns[m] = 1
         /\ despawns[e] = 1 /\ despawns[f] = 1

\* C8: a run of player_laser_hit_enemy that resolves n collisions adds n to
\* the score, takes n from the u32 enemy_count and queues n Explosions, each
\* with index 0 at the position of an enemy it despawned; in Playing nothing
\* else changes the score.
C8_ScoreCountExplosions ==
    [][/\ PlheStep =>
            LET E == Despawned \cap IdsOf("Enemy")
                n == Cardinality(E)
            IN /\ score' = score + n
               /\ U32Less(enemy_count, enemy_count', n)
               /\ Len(spawns') = Len(spawns) + n
               /\ \A e \in E :
                    Queued(spawns', Explosion(ents[e].x, ents[e].y))
                        > Queued(spawns, Explosion(ents[e].x, ents[e].y))
       /\ (state = "Playing" /\ score' # score) => PlheStep]_vars

\* C9 as claimed: within one frame the score rises by 1 at most.
C9_ScoreRisesByOne == pc = "update" => score - score0 <= 1

\* C9: within one frame the score rises by at most the number of player
\* lasers and by at most the number of enemies live in that frame.
C9_ScoreRisesByPairs ==
    pc = "update" =>
        score - score0 <= Min(NumOf("PlayerLaser"), NumOf("Enemy"))

\* The score rose by 2 within one frame.
C9_TwoInOneFrame == pc = "update" /\ state = "Playing" /\ score = score0 + 2

\* C10: in Playing the cap is 3 while the score is below 5, and it is 10
\* once update_scoreboard has run in a frame that began with a score of 5 or
\* more (the frame after the score reached 5, or a later one).
C10_CapFollowsScore ==
    /\ (state = "Playing" /\ score < MAX_ENEMIES_SCORE)
       => max_enemies = INITIAL_MAX_ENEMIES
    /\ (state = "Playing" /\ pc = "update" /\ "update_scoreboard" \in ran
           /\ score0 >= MAX_ENEMIES_SCORE)
       => max_enemies = RAISED_MAX_ENEMIES

FireStep ==
    pc = "update" /\ chain' # chain /\ chain' = Pos("player_fire")

\* C16: player_fire queues two PlayerLaser spawns, at the player and with
\* the vertical velocity 2 under the upgrade and 1 without it, when there is
\* a player, ArrowUp is pressed in this frame and was not in the frame
\* before, and fewer than PLAYER_MAX_LASERS player lasers are alive; it
\* queues nothing otherwise.
C16_TwoLasersOnRisingEdge ==
    [][FireStep =>
         LET v == IF laser_velocity_upgrade THEN 2 ELSE 1
             fires == /\ NumOf("Player") = 1
                      /\ fire_held' /\ ~fire_held
                      /\ NumOf("PlayerLaser") < PLAYER_MAX_LASERS
         IN IF fires
            THEN LET p == ents[CHOOSE i \in IdsOf("Player") : TRUE]
                     l == PlayerLaser(p.x, p.y, v)
                 IN /\ Len(spawns') = Len(spawns) + 2
                    /\ Queued(spawns', l) = Queued(spawns, l) + 2
            ELSE spawns' = spawns]_vars

\* player_fire has fired with one player laser less than the cap alive, under
\* the upgrade.
C16_FiredBelowCap ==
    /\ chain = Pos("player_fire")
    /\ NumOf("PlayerLaser") = PLAYER_MAX_LASERS - 1
    /\ laser_velocity_upgrade
    /\ Queued(spawns, PlayerLaser(0, PlayerY, 2)) = 2

\* C11: in Playing the laser upgrade is off while the score is below 50, and
\* it is on once update_scoreboard has run in a frame that began with a
\* score of 50 or more.
C11_UpgradeFollowsScore ==
    /\ (state = "Playing" /\ score < LASER_UPGRADE_SCORE)
       => ~laser_velocity_upgrade
    /\ (state = "Playing" /\ pc = "update" /\ "update_scoreboard" \in ran
           /\ score0 >= LASER_UPGRADE_SCORE)
       => laser_velocity_upgrade

StartStep ==
    pc = "update" /\ chain' # chain /\ chain' = Pos("start_game")

\* C12: start_game with the confirm input sets the score to 0 and requests
\* Playing, and without it leaves both alone; no other system of a MainMenu
\* frame changes the score or the state asked for; the request is applied as
\* the next frame begins, and Playing is entered from MainMenu only, with a
\* score of 0.
C12_ConfirmStartsSession ==
    [][/\ StartStep =>
            IF session' # session
            THEN score' = 0 /\ next_state' = "Playing"
            ELSE score' = score /\ next_state' = next_state
       /\ (state = "MainMenu" /\ pc = "update" /\ ~StartStep) =>
            (score' = score /\ next_state' = next_state /\ state' = state)
       /\ (state = "MainMenu" /\ pc = "first" /\ next_state = "Playing") =>
            state' = "Playing"
       /\ (state # "Playing" /\ state' = "Playing") =>
            (state = "MainMenu" /\ score' = 0)]_vars

\* Confirm in the menu that follows a session which scored.
C12_ConfirmedAfterSession ==
    /\ state = "MainMenu" /\ pc = "update"
    /\ session = MaxSessions + 1
    /\ high_score > 0
    /\ score = 0 /\ next_state = "Playing"

GameOverStep ==
    pc = "update" /\ chain' # chain /\ chain' = Pos("game_over")

\* C13: game_over, which runs from the first frame of GameOver on, leaves
\* the high score at the larger of the score and the high score.
C13_HighScoreOnGameOver ==
    [][GameOverStep =>
         high_score' = IF score > high_score THEN score ELSE high_score]_vars

\* C14: no step lowers the high score, and in a MainMenu that follows a
\* session the high score is the session's score at least.
C14_HighScoreNeverFalls ==
    [][/\ high_score' >= high_score
       /\ (state' = "MainMenu" /\ session' >= 1) => high_score' >= score']_vars

\* The menu after a session that ended one point short of the high score.
C14_MenuBelowHighScore ==
    /\ state = "MainMenu" /\ session >= 1
    /\ score = LateScore /\ high_score = LASER_UPGRADE_SCORE

MovementStep ==
    pc = "update" /\ "movement" \notin ran /\ "movement" \in ran'

\* C15: in every state movement moves each entity by velocity * delta *
\* BASE_SPEED and asks for the despawn of exactly those with auto_despawn
\* whose new position is beyond the window and its margin; the entities a
\* frame asked to despawn are not among those of the next frame.
C15_AutoDespawnBeyondMargin ==
    [][/\ MovementStep =>
            \A i \in Ids :
                /\ ents'[i].x = ents[i].x + ents[i].vx * delta * BASE_SPEED
                /\ ents'[i].y = ents[i].y + ents[i].vy * delta * BASE_SPEED
                /\ despawns'[i] > despawns[i] <=>
                      /\ ents[i].auto_despawn
                      /\ OutOfBounds(ents'[i].x, ents'[i].y)
       /\ (pc = "update" /\ pc' = "first") =>
            Len(ents') = Cardinality({i \in Ids : despawns[i] = 0})
                         + Len(spawns)]_vars

\* Outside Playing movement has run: a laser that went beyond the margin is
\* to be despawned, and an enemy (auto_despawn false) beyond it is not.
C15_LaserGoneEnemyKept ==
    /\ state # "Playing" /\ pc = "update" /\ "movement" \in ran
    /\ \E i \in IdsOf("PlayerLaser") \cup IdsOf("EnemyLaser") :
            OutOfBounds(ents[i].x, ents[i].y) /\ despawns[i] > 0
    /\ \E i \in IdsOf("Enemy") :
            OutOfBounds(ents[i].x, ents[i].y) /\ despawns[i] = 0

SpawnStep ==
    pc = "update" /\ "enemy_spawn" \notin ran /\ "enemy_spawn" \in ran'

C18_OncePerInterval ==
    [][/\ (firings'.fired = firings.fired + 1 /\ firings.fired >= 1) =>
            firings'.gap >= TIMER_TICKS
       /\ firings'.fired = firings'.clock \div TIMER_TICKS]_vars

\* C18, as the code has it: a trigger fires once in a frame at most, and
\* never more often than once for every full interval of the time it ran
\* for; while no frame was as long as the interval it has fired exactly once
\* for every full interval, however the time was split into frames.
C18_FiringsFollowTime ==
    [][/\ firings'.fired <= firings.fired + 1
       /\ firings'.fired <= firings'.clock \div TIMER_TICKS
       /\ firings'.longest < TIMER_TICKS =>
            firings'.fired = firings'.clock \div TIMER_TICKS]_vars

\* Two firings less than an interval apart, in frames shorter than the
\* interval.
C18_FiringsCloserThanInterval ==
    /\ pc = "timer"
    /\ firings.fired >= 2
    /\ firings.gap < TIMER_TICKS
    /\ firings.longest < TIMER_TICKS

\* The phase of a system in input, spawners, movement, collision,
\* animation, flow-transition checks.
Stage(sys) ==
    CASE sys = "player_input" -> 1
      [] sys \in {"player_fire", "enemy_spawn", "enemy_fire"} -> 2
      [] sys \in {"movement", "enemy_move"} -> 3
      [] sys \in {"player_laser_hit_enemy", "enemy_laser_hit_player"} -> 4
      [] sys = "explosion_animation" -> 5
      [] sys \in {"game_over", "start_game"} -> 6

Staged ==
    {"player_input", "player_fire", "enemy_spawn", "enemy_fire", "movement",
     "enemy_move", "player_laser_hit_enemy", "enemy_laser_hit_player",
     "explosion_animation", "game_over", "start_game"}

\* sys has run in this frame; the step is its run.
HasRun(sys) ==
    IF sys \in FreeSystems \cup {"enemy_move"} THEN sys \in ran
    ELSE Pos(sys) <= chain /\ Runs(sys)

StepOf(sys) ==
    IF sys \in FreeSystems \cup {"enemy_move"}
    THEN sys \notin ran /\ sys \in ran'
    ELSE chain' # chain /\ chain' = Pos(sys)

\* C19: within a frame no system runs after one of a later phase, no system
\* asks for the despawn of an entity that another has asked to despawn, and
\* enemy_fire fires for the enemies not yet asked to despawn only.
C19_FixedOrderObserved ==
    [][(pc = "update" /\ pc' = "update") =>
         /\ \A sys \in Staged : StepOf(sys) =>
                \A other \in Staged : HasRun(other) =>
                    Stage(other) <= Stage(sys)
         /\ \A i \in Despawned : despawns[i] = 0
         /\ StepOf("enemy_fire") =>
                Len(spawns') - Len(spawns) =
                    2 * Cardinality({i \in IdsOf("Enemy") : despawns[i] = 0})]_vars

\* C20: within a frame no entity is asked to despawn more than once.
C20_OneDespawnEach ==
    pc = "update" => \A i \in Ids : despawns[i] <= 1

\* C21: in a frame whose state is not Playing no step raises the score,
\* queues an Explosion or requests GameOver, and the only despawns asked for
\* are those of lasers movement carried beyond the margin, of enemies
\* enemy_move found beyond it, of the enemies game_over sweeps and of
\* Explosions at their last frame: none of the player, none for an overlap.
C21_NoCollisionsOutsidePlaying ==
    [][(pc = "update" /\ pc' = "update" /\ state # "Playing") =>
         /\ score' <= score
         /\ next_state' # "GameOver"
         /\ \A k \in DOMAIN spawns' : spawns'[k].kind # "Explosion"
         /\ \A i \in Despawned :
              CASE ents[i].kind = "Player" -> FALSE
                [] ents[i].kind \in {"PlayerLaser", "EnemyLaser"} ->
                     MovementStep /\ OutOfBounds(ents'[i].x, ents'[i].y)
                [] ents[i].kind = "Enemy" ->
                     \/ StepOf("enemy_move") /\ OutOfBounds(ents[i].x, ents[i].y)
                     \/ state = "GameOver" /\ GameOverStep
                [] ents[i].kind = "Explosion" ->
                     StepOf("explosion_animation")]_vars

\* Every system of a MainMenu frame has run: a player laser overlaps an
\* enemy, and both stand.
C21_OverlapLeftStanding ==
    /\ state = "MainMenu" /\ pc = "update" /\ NextChain > Len(Chain)
    /\ \A sys \in FreeSystems : Runs(sys) => sys \in ran
    /\ \E l \in IdsOf("PlayerLaser"), e \in IdsOf("Enemy") :
         /\ Collision(ents[l], ents[e])
         /\ despawns[l] = 0 /\ despawns[e] = 0

\* C22: the collision test says yes exactly when, on both axes, twice the
\* distance of the centers is at most the sum of the extents, an extent being
\* SpriteSize * SPRITE_SCALE: boxes whose edges touch overlap.
C22_OverlapIffWithinExtents ==
    probe.collision # "none" =>
        (probe.collision = "yes" <=>
            /\ 4 * Abs(probe.offset[1]) <= probe.size_a[1] + probe.size_b[1]
            /\ 4 * Abs(probe.offset[2]) <= probe.size_a[2] + probe.size_b[2])

\* The test said yes of two boxes of unlike sizes whose edges touch on one
\* axis.
C22_TouchingBoxesOverlap ==
    /\ probe.collision = "yes"
    /\ probe.size_a # probe.size_b
    /\ 4 * Abs(probe.offset[1]) = probe.size_a[1] + probe.size_b[1]
    /\ 4 * Abs(probe.offset[2]) < probe.size_a[2] + probe.size_b[2]

\* main could not read a number from high_score.txt.
LoadFailed(file) == ~file.readable \/ parse(file.text) < 0

\* C23: no step dies of high_score.txt.  When main could read no number
\* from it the high score is 0 until the session's game over; and when
\* game_over finds no Explosion it leaves the high score at the larger of
\* the score and the high score and requests MainMenu, which is the state
\* of the next frame, whether or not the file can be written.
C23_PersistenceNeverFails ==
    [][/\ panic' = "none"
       /\ (state = "GameOver" /\ next_state = "None"
              /\ LoadFailed(high_score_file))
          => high_score = 0
       /\ (GameOverStep /\ NumOf("Explosion") = 0)
          => /\ high_score' = IF score > high_score THEN score
                              ELSE high_score
             /\ next_state' = "MainMenu"
       /\ (pc = "first" /\ state = "GameOver" /\ next_state = "MainMenu")
          => state' = "MainMenu"]_vars

\* The menu after a session whose score could not be saved: the high score
\* is the score, and the file is as it was, with no number in it.
C23_ScoreKeptSaveFailed ==
    /\ state = "MainMenu"
    /\ ~high_score_file.writable
    /\ LoadFailed(high_score_file)
    /\ high_score = SaveScore

\* C24: with or without a primary window when setup runs, the state becomes
\* MainMenu in the end.
C24_StartupIsLeft == <>(state = "MainMenu")

\* C25: from every GameOver state the state becomes MainMenu in the end.
C25_GameOverLeadsToMenu == (state = "GameOver") ~> (state = "MainMenu")

\* How many of the entities of a sequence are Explosions at the index n.
AtIndex(seq, n) ==
    Cardinality({k \in DOMAIN seq :
                    seq[k].kind = "Explosion" /\ seq[k].index = n})

\* C26: explosion_animation advances the index of every Explosion by 1 when
\* its timer has finished in the frame and by nothing otherwise, and asks
\* for the despawn of exactly those whose index reaches EXPLOSION_LEN; no
\* other system changes or despawns an Explosion; an Explosion is queued at
\* index 0; and the Explosions of the next frame are those that were not
\* despawned, at the index they had, and those queued: none is at
\* EXPLOSION_LEN or beyond.
C26_ExplosionFramesAdvance ==
    [][/\ StepOf("explosion_animation") =>
            \A i \in IdsOf("Explosion") :
                /\ ents'[i].index =
                      ents[i].index
                        + (IF ExplosionTimerFinished(delta) THEN 1 ELSE 0)
                /\ despawns'[i] > despawns[i] <=>
                      /\ ents[i].index < EXPLOSION_LEN
                      /\ ents'[i].index >= EXPLOSION_LEN
       /\ (pc = "update" /\ pc' = "update"
              /\ ~StepOf("explosion_animation")) =>
            \A i \in IdsOf("Explosion") :
                ents'[i] = ents[i] /\ despawns'[i] = despawns[i]
       /\ \A k \in DOMAIN spawns' :
            spawns'[k].kind = "Explosion" => spawns'[k].index = 0
       /\ (pc = "update" /\ pc' = "first") =>
            /\ \A n \in 0..EXPLOSION_LEN :
                 AtIndex(ents', n) = AtIndex(Survivors(1), n)
                                        + AtIndex(spawns, n)
            /\ \A k \in DOMAIN ents' :
                 ents'[k].kind = "Explosion" =>
                    ents'[k].index < EXPLOSION_LEN]_vars

\* explosion_animation has run in a frame of one tick: an Explosion has
\* reached EXPLOSION_LEN and is to be despawned, another is at its second
\* frame and stays.
C26_LastFrameReached ==
    /\ pc = "update" /\ chain >= Pos("explosion_animation") /\ delta = 1
    /\ \E i \in IdsOf("Explosion"), j \in IdsOf("Explosion") :
         /\ ents[i].index = EXPLOSION_LEN /\ despawns[i] = 1
         /\ ents[j].index = 1 /\ despawns[j] = 0

\* C27: there is never more than one Player; there is exactly one in
\* MainMenu and when Playing is entered, and none in GameOver; the number of
\* Players rises only as MainMenu is entered, no system queues the spawn of
\* one, only enemy_laser_hit_player, in Playing, asks for the despawn of
\* one, and the number falls only as the commands of that frame are applied.
C27_OnePlayer ==
    [][/\ NumOf("Player")' <= 1
       /\ state' = "MainMenu" => NumOf("Player")' = 1
       /\ state' = "GameOver" => NumOf("Player")' = 0
       /\ (state # "Playing" /\ state' = "Playing") => NumOf("Player")' = 1
       /\ NumOf("Player")' > NumOf("Player") =>
            (state # "MainMenu" /\ state' = "MainMenu")
       /\ \A k \in DOMAIN spawns' : spawns'[k].kind # "Player"
       /\ (pc = "update" /\ pc' = "update") =>
            \A i \in Despawned :
                ents[i].kind = "Player" => (ElhpStep /\ state = "Playing")
       /\ NumOf("Player")' < NumOf("Player") =>
            /\ pc = "update" /\ pc' = "first"
            /\ state = "Playing" /\ next_state = "GameOver"]_vars

\* The menu after a session: the player that was hit is gone, a new one is
\* there, and lasers and an enemy of the session are still about.
C27_PlayerBackInMenu ==
    /\ state = "MainMenu" /\ session = MaxSessions /\ next_state = "None"
    /\ pc = "update"
    /\ NumOf("Player") = 1
    /\ NumOf("EnemyLaser") > 0 /\ NumOf("Enemy") > 0

\* C28: player_fire queues lasers only with fewer than PLAYER_MAX_LASERS
\* player lasers alive, and when the commands of a frame that began with
\* PLAYER_MAX_LASERS + 1 at most are applied there are PLAYER_MAX_LASERS + 1
\* at most.
C28_AtMostElevenLasers ==
    [][/\ (FireStep /\ Len(spawns') > Len(spawns)) =>
            NumOf("PlayerLaser") < PLAYER_MAX_LASERS
       /\ pc' = "first" =>
            NumOf("PlayerLaser")' <= PLAYER_MAX_LASERS + 1]_vars

\* Between two frames: the pair fired with PLAYER_MAX_LASERS - 1 lasers
\* alive has made PLAYER_MAX_LASERS + 1.
C28_ElevenLasers ==
    /\ pc = "first"
    /\ NumOf("PlayerLaser") = PLAYER_MAX_LASERS + 1
    /\ Cardinality({i \in IdsOf("PlayerLaser") : ents[i].y = PlayerY}) = 2

====
